---- MODULE Spec2Model ----
(***************************************************************************)
(* Model of the pesticide search pipeline of src/app.py: one request of    *)
(* /api/search from the raw keyword string to the response.                *)
(*                                                                         *)
(* Text is a tuple of characters.  Characters outside ASCII are written by *)
(* code point: "U+FF0C" is the full-width comma, "U+3000" the ideographic  *)
(* space, "U+8449" the leaf character removed by the overlap detector.     *)
(* A row of crop_usage is a record; its columns are                        *)
(*   crop (crop name), pest (pest name), chem (chemical name),             *)
(*   brand, barcode, form (formulation), conc (concentration),             *)
(*   moa_name, moa_note (mechanism of action), phi (safe harvest           *)
(*   interval), dilution, dosage (dosage per hectare).                     *)
(* The explanation of a NoMatchCard is written in English, one phrase one  *)
(* character; the keys of the cards are name (displayed chemical name),    *)
(* form, conc, moa_name, moa_note and usages.  maps records, beside        *)
(* results, each grouping map a handler extended its list with; invoked   *)
(* records the strategies the router called, in the order of the calls.   *)
(***************************************************************************)
EXTENDS Integers, Sequences, FiniteSets, TLC

VARIABLES db, keywords, pc, conn, keyword_list,
          crop_keywords, pest_keywords, chem_keywords, brand_keywords,
          barcode_keywords, other_keywords,
          strategy, invoked, results, maps, response, fault

vars == <<db, keywords, pc, conn, keyword_list,
          crop_keywords, pest_keywords, chem_keywords, brand_keywords,
          barcode_keywords, other_keywords,
          strategy, invoked, results, maps, response, fault>>

\* ------------------------------------------------------------------ bounds
MaxTokens == 3
MaxDropped == 1
MaxRawLen == 3
MaxCrops == 2
MaxMixed == 2

\* -------------------------------------------------------------------- text
Null == <<"NULL">>
FullwidthComma == "U+FF0C"
IdeographicSpace == "U+3000"
Leaf == "U+8449"
Marker == "#"

Whitespace == {" ", "\t", IdeographicSpace}

\* The delimiters of a pattern that leaves the full-width comma out.
AsciiDelimiters == {","} \cup Whitespace
Delimiters == {",", FullwidthComma} \cup Whitespace
Digits == {"0", "1", "2", "3", "4", "5", "6", "7", "8", "9"}

Truthy(x) == x # Null /\ x # <<>>
OrEmpty(x) == IF Truthy(x) THEN x ELSE <<>>

RECURSIVE Flatten(_)
Flatten(ss) == IF ss = <<>> THEN <<>> ELSE Head(ss) \o Flatten(Tail(ss))

RECURSIVE Join(_, _)
Join(ss, sep) ==
    IF ss = <<>> THEN <<>>
    ELSE IF Len(ss) = 1 THEN ss[1]
    ELSE ss[1] \o sep \o Join(Tail(ss), sep)

\* Python `s in t`.
Contains(t, s) ==
    \E i \in 0 .. (Len(t) - Len(s)) :
        \A k \in 1 .. Len(s) : t[i + k] = s[k]

AsciiUpper ==
    <<"A", "B", "C", "D", "E", "F", "G", "H", "I", "J", "K", "L", "M",
      "N", "O", "P", "Q", "R", "S", "T", "U", "V", "W", "X", "Y", "Z">>
AsciiLower ==
    <<"a", "b", "c", "d", "e", "f", "g", "h", "i", "j", "k", "l", "m",
      "n", "o", "p", "q", "r", "s", "t", "u", "v", "w", "x", "y", "z">>

\* str.lower() of one character.
Lower(c) ==
    IF \E i \in 1 .. Len(AsciiUpper) : AsciiUpper[i] = c
    THEN AsciiLower[CHOOSE i \in 1 .. Len(AsciiUpper) : AsciiUpper[i] = c]
    ELSE c

LowerText(t) == [i \in 1 .. Len(t) |-> Lower(t[i])]

\* SQLite `t LIKE '%s%'` for s free of the wildcards % and _: containment,
\* ASCII letters compared without case.
Like(t, s) == Contains(LowerText(t), LowerText(s))

Remove(t, ch) == SelectSeq(t, LAMBDA x : x # ch)

\* Python int() of a digit string.
RECURSIVE ToInt(_)
ToInt(ds) ==
    IF ds = <<>> THEN 0
    ELSE 10 * ToInt(SubSeq(ds, 1, Len(ds) - 1))
         + (CHOOSE n \in 0 .. 9 : ToString(n) = ds[Len(ds)])

\* ------------------------------------------------------------ data store
Row(crop, pest, chem, brand, barcode, form, conc, mn, mt, phi, dil, dose) ==
    [crop |-> crop, pest |-> pest, chem |-> chem, brand |-> brand,
     barcode |-> barcode, form |-> form, conc |-> conc,
     moa_name |-> mn, moa_note |-> mt,
     phi |-> phi, dilution |-> dil, dosage |-> dose]

\* The rows the tables of the model are drawn from.
MasterTable ==
    << Row(<<"c">>, <<"a", "b">>, <<"Q">>, <<"N">>, <<"2">>, <<"F">>, <<"5">>,
           Null, Null, <<"1", "4", "d">>, Null, <<>>),
       Row(<<"c">>, <<"a">>, <<"P">>, <<"M">>, <<"1">>, <<"F">>, <<"5">>,
           <<"m">>, <<"n">>, <<"7", "d">>, <<"x">>, <<"y">>),
       Row(<<"c">>, <<"#", "a">>, <<"P">>, <<"M">>, <<"1">>, <<"F">>, <<"5">>,
           <<"m">>, <<"n">>, <<"7", "d">>, <<"x">>, <<"y">>),
       Row(<<"d">>, <<"a", "b">>, <<"Q">>, <<"N">>, <<"2">>, <<"F">>, <<"5">>,
           <<"m">>, Null, <<>>, <<"x">>, Null),
       Row(<<"d">>, <<"a">>, <<"P">>, <<"M">>, <<"1">>, <<"G">>, <<"5">>,
           <<"m">>, <<>>, <<"d">>, <<"x">>, <<"y">>),
       Row(<<"c">>, <<"b">>, <<"Q">>, <<"N">>, <<"2">>, <<"F">>, <<"5">>,
           <<"m">>, <<"n">>, Null, <<"x">>, <<"y">>) >>

Subsequence(t, keep) ==
    Flatten([i \in 1 .. Len(t) |-> IF i \in keep THEN <<t[i]>> ELSE <<>>])

\* A table: MasterTable with at most MaxDropped rows left out.
Tables ==
    { Subsequence(MasterTable, keep) :
        keep \in { k \in SUBSET (1 .. Len(MasterTable)) :
                     Cardinality(k) >= Len(MasterTable) - MaxDropped } }

\* The tokens the queries of the model are made of.
Vocabulary ==
    { <<"c">>, <<"d">>, <<"a">>, <<"b">>, <<"P">>, <<"N">>, <<"1">> }

Separators == << <<",">>, <<" ">>, <<FullwidthComma>>, <<",", " ">> >>

RECURSIVE JoinTokens(_, _)
JoinTokens(toks, i) ==
    IF i > Len(toks) THEN <<>>
    ELSE IF i = Len(toks) THEN toks[i]
    ELSE toks[i] \o Separators[((i - 1) % Len(Separators)) + 1]
                 \o JoinTokens(toks, i + 1)

\* A raw query: up to MaxTokens tokens, the i-th separator after the i-th.
RawQueries ==
    { JoinTokens(toks, 1) :
        toks \in UNION { [1 .. n -> Vocabulary] : n \in 0 .. MaxTokens } }

\* ------------------------------------------------------------ tokenizer
\* re.split(r'[,<fullwidth comma>\s]+', keywords): the pieces between the runs
\* of delimiters, an empty piece before a leading and after a trailing run.
RECURSIVE ReSplit(_, _, _)
ReSplit(s, i, cur) ==
    IF i > Len(s) THEN <<cur>>
    ELSE IF s[i] \in Delimiters
         THEN IF i > 1 /\ s[i - 1] \in Delimiters
              THEN ReSplit(s, i + 1, cur)
              ELSE <<cur>> \o ReSplit(s, i + 1, <<>>)
         ELSE ReSplit(s, i + 1, Append(cur, s[i]))

\* str.strip()
RECURSIVE Strip(_)
Strip(k) ==
    IF k = <<>> THEN k
    ELSE IF Head(k) \in Whitespace THEN Strip(Tail(k))
    ELSE IF k[Len(k)] \in Whitespace THEN Strip(SubSeq(k, 1, Len(k) - 1))
    ELSE k

Tokenize(s) ==
    LET pieces == ReSplit(s, 1, <<>>)
        stripped == [i \in 1 .. Len(pieces) |-> Strip(pieces[i])]
    IN  SelectSeq(stripped, LAMBDA k : k # <<>>)

\* ------------------------------------------------------------- responses
OkResponse(cards) == [status |-> 200, body |-> cards]
\* An error answer that also hands out the cards built so far.
PartialResponse(msg) == [status |-> 500, error |-> msg, body |-> results]
ErrorResponse(msg) == [status |-> 500, error |-> msg]
NoResponse == [status |-> 0]

FaultMessages == {"no such table: crop_usage", "database is locked"}

\* ------------------------------------------------------------- lookups
\* cursor.execute(...) followed by fetchall() is SelectSeq over the table: the
\* rows that match, in table order.

\* SELECT DISTINCT col FROM crop_usage, as a set.
Column(t, col) == { t[i][col] : i \in 1 .. Len(t) }

all_crops(t) == Column(t, "crop")
all_pests(t) == Column(t, "pest")
all_chems(t) == Column(t, "chem")
all_brands(t) == Column(t, "brand")
all_barcodes(t) == Column(t, "barcode")

\* [kw for kw in keyword_list if kw in names]
Members(kws, names) == SelectSeq(kws, LAMBDA kw : kw \in names)

mixed_keywords == chem_keywords \o brand_keywords \o barcode_keywords

\* ---------------------------------------------------------------- cards
\* str() of a column value inside an f-string.
Str(x) == IF x = Null THEN <<"N", "o", "n", "e">> ELSE x

\* f"{chem}__{form}__{conc}"
PesticideKey(chem, form, conc) ==
    Str(chem) \o <<"_", "_">> \o Str(form) \o <<"_", "_">> \o Str(conc)

RowKey(r) == PesticideKey(r.chem, r.form, r.conc)

\* unicodedata.normalize('NFKC', c) of one character, then lower().
NormalizeChar(c) ==
    CASE c = IdeographicSpace -> " "
      [] c = FullwidthComma -> ","
      [] OTHER -> Lower(c)

normalize_pest_name(name) ==
    IF ~Truthy(name) THEN <<>>
    ELSE SelectSeq([i \in 1 .. Len(name) |-> NormalizeChar(name[i])],
                   LAMBDA c : c # " ")

Usage(r) ==
    [crop_name |-> r.crop,
     pest |-> r.pest,
     pest_normalized |-> normalize_pest_name(r.pest),
     phi |-> OrEmpty(r.phi),
     dilution |-> OrEmpty(r.dilution),
     dosage |-> OrEmpty(r.dosage)]

SameUsage(u, v) ==
    /\ u.pest = v.pest
    /\ u.phi = v.phi
    /\ u.dilution = v.dilution
    /\ u.dosage = v.dosage

RECURSIVE UniqueUsages(_, _)
UniqueUsages(usages, unique_usages) ==
    IF usages = <<>> THEN unique_usages
    ELSE UniqueUsages(
             Tail(usages),
             IF \E i \in 1 .. Len(unique_usages) :
                    SameUsage(unique_usages[i], Head(usages))
             THEN unique_usages
             ELSE Append(unique_usages, Head(usages)))

remove_duplicate_usages(usages) == UniqueUsages(usages, <<>>)

\* A grouping that opens a card for every row.
EveryRow(rows) == [i \in 1 .. Len(rows) |-> i]

\* The indices of the rows that open a new key of a grouping map.
FirstOfKey(rows) ==
    SelectSeq([i \in 1 .. Len(rows) |-> i],
              LAMBDA i : \A j \in 1 .. (i - 1) : RowKey(rows[j]) # RowKey(rows[i]))

\* pesticide_map of one lookup, as list(pesticide_map.values()): one card per
\* key in order of first occurrence (cards[i] is the card row i would open),
\* every row of the key as a usage, the usages deduplicated.
GroupRows(rows, cards) ==
    LET first == FirstOfKey(rows)
    IN  [n \in 1 .. Len(first) |->
            LET mine == SelectSeq(rows,
                            LAMBDA r : RowKey(r) = RowKey(rows[first[n]]))
            IN  [cards[first[n]] EXCEPT
                    !.usages = remove_duplicate_usages(
                                   [k \in 1 .. Len(mine) |-> Usage(mine[k])])]]

IsNoMatch(x) == "no_match" \in DOMAIN x
IsProduct(x) == ~IsNoMatch(x)

\* What a handler returns (results) and the grouping maps it built (maps).
NoOutput == [results |-> <<>>, maps |-> <<>>]

\* ---------------------------------------------- single-bucket handlers
PlainCard(r) ==
    [name |-> r.chem, form |-> r.form, conc |-> r.conc,
     moa_name |-> OrEmpty(r.moa_name), moa_note |-> OrEmpty(r.moa_note),
     usages |-> <<>>]

ChemCard(r) ==
    [name |-> Str(r.chem), crop_name |-> r.crop, pest_name |-> r.pest,
     form |-> r.form, conc |-> r.conc,
     moa_name |-> OrEmpty(r.moa_name), moa_note |-> OrEmpty(r.moa_note),
     usages |-> <<>>]

\* f"{chem}(brand)" with full-width parentheses
BrandName(r) == Str(r.chem) \o <<"U+FF08">> \o Str(r.brand) \o <<"U+FF09">>

BarcodeLabel == <<" ", "U+689D", "U+78BC", "U+FF1A">>

\* f"{chem}(brand) barcode:{barcode}"
BarcodeName(r) == BrandName(r) \o BarcodeLabel \o Str(r.barcode)

BrandCard(r) == [PlainCard(r) EXCEPT !.name = BrandName(r)]

BarcodeCard(r) == [PlainCard(r) EXCEPT !.name = BarcodeName(r)]

\* crop LIKE ? OR pest LIKE ? OR chem LIKE ? OR brand LIKE ? OR barcode LIKE ?
PartialMatch(r, kw) ==
    \/ Like(r.crop, kw)
    \/ Like(r.pest, kw)
    \/ Like(r.chem, kw)
    \/ Like(r.brand, kw)
    \/ Like(r.barcode, kw)

\* The lookup of a single-bucket handler: equality on the bucket's column, the
\* five-column substring match for the fallback.
BucketRows(t, bucket, kw) ==
    IF bucket = "other"
    THEN SelectSeq(t, LAMBDA r : PartialMatch(r, kw))
    ELSE SelectSeq(t, LAMBDA r : r[bucket] = kw)

BucketCard(bucket, r) ==
    CASE bucket = "chem" -> ChemCard(r)
      [] bucket = "brand" -> BrandCard(r)
      [] bucket = "barcode" -> BarcodeCard(r)
      [] OTHER -> PlainCard(r)

\* for kw in kws: rows = lookup; results.extend(pesticide_map.values())
RECURSIVE ForEachKeyword(_, _, _, _)
ForEachKeyword(t, kws, bucket, out) ==
    IF kws = <<>> THEN out
    ELSE LET rows == BucketRows(t, bucket, Head(kws))
             cards == GroupRows(rows,
                          [i \in 1 .. Len(rows) |-> BucketCard(bucket, rows[i])])
         IN  ForEachKeyword(t, Tail(kws), bucket,
                 [results |-> out.results \o cards,
                  maps |-> Append(out.maps, cards)])

handle_crop_only(t, crops) == ForEachKeyword(t, crops, "crop", NoOutput)

handle_chem_only(t, chems) == ForEachKeyword(t, chems, "chem", NoOutput)

handle_brand_only(t, brands) == ForEachKeyword(t, brands, "brand", NoOutput)

handle_barcode_only(t, barcodes) ==
    ForEachKeyword(t, barcodes, "barcode", NoOutput)

handle_fallback_partial_match(t, others) ==
    ForEachKeyword(t, others, "other", NoOutput)

\* ------------------------------------------------- crop + single pest
CommaJoin(kws) == Join(kws, <<",", " ">>)

NoAgentCard(crop, pest) ==
    [no_match |-> TRUE,
     error_message |-> <<"no registered control agent: ">> \o crop
                       \o <<" / ">> \o pest,
     crop |-> crop, keyword |-> pest]

CropPestCard(r, crop, pest) ==
    [name |-> r.chem, form |-> r.form, conc |-> r.conc,
     moa_name |-> OrEmpty(r.moa_name), moa_note |-> OrEmpty(r.moa_note),
     usages |-> <<>>, crop |-> crop, keyword |-> pest,
     is_crop_and_pest_search |-> TRUE]

RECURSIVE CropSinglePest(_, _, _, _)
CropSinglePest(t, crops, pest, out) ==
    IF crops = <<>> THEN out
    ELSE LET crop == Head(crops)
             rows == SelectSeq(t, LAMBDA r : r.crop = crop /\ Like(r.pest, pest))
             cards == GroupRows(rows,
                          [i \in 1 .. Len(rows) |->
                              CropPestCard(rows[i], crop, pest)])
         IN  CropSinglePest(t, Tail(crops), pest,
                 IF rows = <<>>
                 THEN [results |-> Append(out.results, NoAgentCard(crop, pest)),
                       maps |-> out.maps]
                 ELSE [results |-> out.results \o cards,
                       maps |-> Append(out.maps, cards)])

handle_crop_single_pest(t, crops, pest) == CropSinglePest(t, crops, pest, NoOutput)

\* ------------------------------------- crop + several pests (intersection)
\* The keys of SELECT DISTINCT chem, form, conc WHERE crop = ? AND pest LIKE ?
PestKeys(t, crop, pest) ==
    { RowKey(t[i]) :
        i \in { j \in 1 .. Len(t) : t[j].crop = crop /\ Like(t[j].pest, pest) } }

\* all_pesticides after the loop over the pest keywords (lines 181-189).
RECURSIVE RunningIntersection(_, _, _, _)
RunningIntersection(t, crop, pests, all_pesticides) ==
    IF pests = <<>> THEN all_pesticides
    ELSE RunningIntersection(t, crop, Tail(pests),
             IF all_pesticides = {}
             THEN PestKeys(t, crop, Head(pests))
             ELSE all_pesticides \cap PestKeys(t, crop, Head(pests)))

NoCommonCard(crop, pests) ==
    [no_match |-> TRUE,
     error_message |-> <<"no common control agent: ">> \o crop
                       \o <<" / ">> \o CommaJoin(pests),
     crop |-> crop, keyword |-> CommaJoin(pests)]

CommonCard(r, crop, pests) ==
    [name |-> r.chem, form |-> r.form, conc |-> r.conc,
     moa_name |-> r.moa_name, moa_note |-> r.moa_note,
     usages |-> <<>>, has_common_pesticide |-> TRUE,
     crop |-> crop, keyword |-> CommaJoin(pests),
     is_crop_and_pest_search |-> TRUE]

CardKey(p) == PesticideKey(p.name, p.form, p.conc)

\* The first card of every key.
remove_duplicate_pesticides(pesticides) ==
    Flatten([i \in 1 .. Len(pesticides) |->
                IF \A j \in 1 .. (i - 1) :
                       CardKey(pesticides[j]) # CardKey(pesticides[i])
                THEN <<pesticides[i]>> ELSE <<>>])

\* unique_pesticides of one crop with their usages attached (lines 198-230).
CommonPesticides(t, crop, pests, all_pesticides) ==
    LET all_rows ==
            Flatten([n \in 1 .. Len(pests) |->
                SelectSeq(t, LAMBDA r : r.crop = crop /\ Like(r.pest, pests[n]))])
        firsts == remove_duplicate_pesticides(
                      [k \in 1 .. Len(all_rows) |->
                          CommonCard(all_rows[k], crop, pests)])
        unique_pesticides ==
            SelectSeq(firsts, LAMBDA p : CardKey(p) \in all_pesticides)
    IN  [n \in 1 .. Len(unique_pesticides) |->
            LET p == unique_pesticides[n]
                mine == SelectSeq(all_rows,
                            LAMBDA r : /\ r.chem = p.name
                                       /\ r.form = p.form
                                       /\ r.conc = p.conc)
            IN  [p EXCEPT !.usages = remove_duplicate_usages(
                              [k \in 1 .. Len(mine) |-> Usage(mine[k])])]]

RECURSIVE CropPestsIntersection(_, _, _, _)
CropPestsIntersection(t, crops, pests, out) ==
    IF crops = <<>> THEN out
    ELSE LET crop == Head(crops)
             all_pesticides == RunningIntersection(t, crop, pests, {})
             cards == CommonPesticides(t, crop, pests, all_pesticides)
         IN  CropPestsIntersection(t, Tail(crops), pests,
                 IF all_pesticides = {}
                 THEN [results |-> Append(out.results, NoCommonCard(crop, pests)),
                       maps |-> out.maps]
                 ELSE [results |-> out.results \o cards,
                       maps |-> Append(out.maps, cards)])

handle_crop_pests_intersection(t, crops, pests) ==
    CropPestsIntersection(t, crops, pests, NoOutput)

\* ------------------------------------ crop + chemical / brand / barcode
KeywordType(t, kw) ==
    IF kw \in all_chems(t) THEN "chem"
    ELSE IF kw \in all_brands(t) THEN "brand"
    ELSE IF kw \in all_barcodes(t) THEN "barcode"
    ELSE "none"

QueryType(kw_type) ==
    IF kw_type = "chem" THEN <<"crop+chem">> ELSE <<"crop+", kw_type>>

\* WHERE crop = ? AND <column of the keyword's type> = ?
MixedRows(t, crop, kw, kw_type) ==
    SelectSeq(t, LAMBDA r : r.crop = crop /\ r[kw_type] = kw)

\* display_name of the card of a keyword that has no row under the crop
\* (lines 299-320).
MissingName(t, kw, kw_type) ==
    CASE kw_type = "chem" -> kw
      [] kw_type = "brand" ->
            LET rows == SelectSeq(t, LAMBDA r : r.brand = kw)
            IN  IF rows # <<>>
                THEN Str(rows[1].chem) \o <<"U+FF08">> \o kw \o <<"U+FF09">>
                ELSE <<"U+FF08">> \o kw \o <<"U+FF09">>
      [] kw_type = "barcode" ->
            LET rows == SelectSeq(t, LAMBDA r : r.barcode = kw)
            IN  IF rows # <<>>
                THEN BrandName(rows[1]) \o BarcodeLabel \o kw
                ELSE Tail(BarcodeLabel) \o kw

NotUsableCard(t, crop, kw, kw_type) ==
    [no_match |-> TRUE,
     error_message |-> MissingName(t, kw, kw_type)
                       \o <<" cannot be used on crop: ">> \o crop,
     crop |-> crop, keyword |-> kw, query_type |-> QueryType(kw_type)]

MixedCard(r, crop, kw, kw_type) ==
    [name |-> CASE kw_type = "brand" -> BrandName(r)
                [] kw_type = "barcode" -> BarcodeName(r)
                [] OTHER -> r.chem,
     raw_chem_name |-> r.chem,
     form |-> r.form, conc |-> r.conc,
     moa_name |-> OrEmpty(r.moa_name), moa_note |-> OrEmpty(r.moa_note),
     usages |-> <<>>, crop |-> crop, keyword |-> kw,
     is_crop_and_pest_search |-> FALSE,
     query_type |-> QueryType(kw_type)]

\* pest_names_by_chem after the rows of one lookup were collected.
CollectPests(pest_names_by_chem, rows) ==
    LET seen == DOMAIN pest_names_by_chem
        chems == { rows[i].chem : i \in 1 .. Len(rows) }
    IN  [c \in seen \cup chems |->
            (IF c \in seen THEN pest_names_by_chem[c] ELSE {})
            \cup { rows[i].pest : i \in { j \in 1 .. Len(rows) : rows[j].chem = c } }]

\* Pass 1 (lines 283-372): the pairs (crop, keyword), crops outermost.
RECURSIVE MixedPass1(_, _, _)
MixedPass1(t, pairs, acc) ==
    IF pairs = <<>> THEN acc
    ELSE LET crop == Head(pairs)[1]
             kw == Head(pairs)[2]
             kw_type == KeywordType(t, kw)
             rows == MixedRows(t, crop, kw, kw_type)
             cards == GroupRows(rows,
                          [i \in 1 .. Len(rows) |->
                              MixedCard(rows[i], crop, kw, kw_type)])
         IN  MixedPass1(t, Tail(pairs),
                 IF kw_type = "none" THEN acc
                 ELSE IF rows = <<>>
                 THEN [acc EXCEPT
                          !.results = <<NotUsableCard(t, crop, kw, kw_type)>> \o @]
                 ELSE [results |-> acc.results \o cards,
                       maps |-> Append(acc.maps, cards),
                       pest_names_by_chem |->
                           CollectPests(acc.pest_names_by_chem, rows)])

SamePest(pest1, pest2) ==
    \/ pest1 = pest2
    \/ Contains(pest2, pest1)
    \/ Contains(pest1, pest2)
    \/ Remove(pest1, Leaf) = Remove(pest2, Leaf)

\* Pass 2 (lines 375-401): the pest names that recur across two chemicals.
DuplicatePests(pest_names_by_chem) ==
    UNION { { pest1, pest2 } :
              <<pest1, pest2>> \in
                  UNION { { pp \in pest_names_by_chem[chem1] \X pest_names_by_chem[chem2] :
                              SamePest(pp[1], pp[2]) } :
                          <<chem1, chem2>> \in
                              { cc \in (DOMAIN pest_names_by_chem) \X (DOMAIN pest_names_by_chem) :
                                  cc[1] # cc[2] } } }

\* Pass 3 (lines 406-414) on one card.
MarkCard(x, duplicate_pests) ==
    IF IsNoMatch(x) THEN x
    ELSE [x EXCEPT !.usages =
             [k \in 1 .. Len(x.usages) |->
                 IF x.usages[k].pest \in duplicate_pests
                 THEN [x.usages[k] EXCEPT !.pest = <<Marker>> \o @]
                 ELSE x.usages[k]]]

MarkCards(cards, duplicate_pests) ==
    [i \in 1 .. Len(cards) |-> MarkCard(cards[i], duplicate_pests)]

RECURSIVE Sum(_)
Sum(ns) == IF ns = <<>> THEN 0 ELSE Head(ns) + Sum(Tail(ns))

MarkedCount(cards, duplicate_pests) ==
    Sum([i \in 1 .. Len(cards) |->
            IF IsNoMatch(cards[i]) THEN 0
            ELSE Cardinality({ k \in 1 .. Len(cards[i].usages) :
                                 cards[i].usages[k].pest \in duplicate_pests })])

NoOverlapMessage == <<"no overlapping control target">>

NoOverlapCard(crops, mixed) ==
    [no_match |-> TRUE,
     error_message |-> NoOverlapMessage,
     crop |-> IF crops # <<>> THEN crops[1] ELSE <<>>,
     keyword |-> CommaJoin(mixed)]

handle_crop_mixed_keywords(t, crops, mixed) ==
    LET pairs == Flatten([i \in 1 .. Len(crops) |->
                     [j \in 1 .. Len(mixed) |-> <<crops[i], mixed[j]>>]])
        pass1 == MixedPass1(t, pairs,
                     [results |-> <<>>, maps |-> <<>>, pest_names_by_chem |-> <<>>])
        duplicate_pests == DuplicatePests(pass1.pest_names_by_chem)
        marked_count == MarkedCount(pass1.results, duplicate_pests)
        marked == MarkCards(pass1.results, duplicate_pests)
    IN  [results |-> IF marked_count = 0 /\ Len(mixed) >= 2
                     THEN <<NoOverlapCard(crops, mixed)>> \o marked
                     ELSE marked,
         maps |-> [m \in 1 .. Len(pass1.maps) |->
                      MarkCards(pass1.maps[m], duplicate_pests)]]

\* --------------------------------------------------------------- ranking
Infinity == [inf |-> TRUE, n |-> 0]
Finite(n) == [inf |-> FALSE, n |-> n]

\* An extraction that ranks an interval without digits as zero days.
extract_days_or_zero(text) ==
    IF ~Truthy(text) THEN Infinity
    ELSE LET digits == SelectSeq(text, LAMBDA c : c \in Digits)
         IN  IF digits = <<>> THEN Finite(0) ELSE Finite(ToInt(digits))

extract_days(text) ==
    IF ~Truthy(text) THEN Infinity
    ELSE LET digits == SelectSeq(text, LAMBDA c : c \in Digits)
         IN  IF digits = <<>> THEN Infinity ELSE Finite(ToInt(digits))

\* next((u[phi] for u in x.get('usages', []) if u[phi]), '')
FirstInterval(x) ==
    LET usages == IF "usages" \in DOMAIN x THEN x.usages ELSE <<>>
        filled == SelectSeq(usages, LAMBDA u : Truthy(u.phi))
    IN  IF filled = <<>> THEN <<>> ELSE filled[1].phi

\* -x.get('has_exact_match', False)
ExactMatchRank(x) ==
    IF "has_exact_match" \in DOMAIN x /\ x.has_exact_match THEN -1 ELSE 0

SortKey(x) == <<ExactMatchRank(x), extract_days(FirstInterval(x))>>

DaysLess(d, e) == ~d.inf /\ (e.inf \/ d.n < e.n)

\* An ordering with the days descending.
KeyLessDescending(a, b) ==
    a[1] < b[1] \/ (a[1] = b[1] /\ DaysLess(b[2], a[2]))

\* Python's ordering of the key tuples.
KeyLess(a, b) == a[1] < b[1] \/ (a[1] = b[1] /\ DaysLess(a[2], b[2]))

\* list.sort(key=...): stable, an element goes behind the elements whose key
\* is not greater than its own.
RECURSIVE InsertSorted(_, _)
InsertSorted(sorted, x) ==
    IF sorted = <<>> THEN <<x>>
    ELSE IF KeyLess(SortKey(x), SortKey(Head(sorted)))
         THEN <<x>> \o sorted
         ELSE <<Head(sorted)>> \o InsertSorted(Tail(sorted), x)

RECURSIVE SortFrom(_, _)
SortFrom(xs, sorted) ==
    IF xs = <<>> THEN sorted
    ELSE SortFrom(Tail(xs), InsertSorted(sorted, Head(xs)))

deduplicate_and_sort_results(xs) == SortFrom(xs, <<>>)

\* --------------------------------------------------------------- request
Init ==
    /\ db \in Tables
    /\ keywords \in RawQueries
    /\ pc = "start"
    /\ conn = "none"
    /\ keyword_list = <<>>
    /\ crop_keywords = <<>>
    /\ pest_keywords = <<>>
    /\ chem_keywords = <<>>
    /\ brand_keywords = <<>>
    /\ barcode_keywords = <<>>
    /\ other_keywords = <<>>
    /\ strategy = 0
    /\ invoked = <<>>
    /\ results = <<>>
    /\ maps = <<>>
    /\ response = NoResponse
    /\ fault = ""

\* search_pesticides, lines 68-81: the two early returns, then the session.
Receive ==
    /\ pc = "start"
    /\ keyword_list' = IF keywords = <<>> THEN <<>> ELSE Tokenize(keywords)
    /\ IF keyword_list' = <<>>
       THEN /\ response' = OkResponse(<<>>)
            /\ pc' = "done"
            /\ conn' = conn
       ELSE /\ response' = response
            /\ pc' = "classify"
            /\ conn' = "open"
    /\ UNCHANGED <<db, keywords, crop_keywords, pest_keywords, chem_keywords,
                   brand_keywords, barcode_keywords, other_keywords,
                   strategy, invoked, results, maps, fault>>

\* Conditions whose fallback also serves the unclassified words that stand
\* beside pest keywords.
FiresBesidePests(i, crops, pests, chems, brands, barcodes, others) ==
    LET mixed == chems \o brands \o barcodes
    IN  CASE i = 1 -> crops # <<>> /\ Len(pests) >= 2
          [] i = 2 -> crops # <<>> /\ Len(pests) = 1
          [] i = 3 -> crops # <<>> /\ mixed # <<>>
          [] i = 4 -> crops # <<>> /\ ~(pests # <<>> \/ mixed # <<>>)
          [] i = 5 -> chems # <<>> /\ crops = <<>>
          [] i = 6 -> brands # <<>> /\ crops = <<>>
          [] i = 7 -> barcodes # <<>> /\ crops = <<>>
          [] i = 8 -> crops = <<>> /\ mixed = <<>> /\ others # <<>>

\* The router's conditions (lines 109-140), over the classified buckets.
Fires(i, crops, pests, chems, brands, barcodes, others) ==
    LET mixed == chems \o brands \o barcodes
    IN  CASE i = 1 -> crops # <<>> /\ Len(pests) >= 2
          [] i = 2 -> crops # <<>> /\ Len(pests) = 1
          [] i = 3 -> crops # <<>> /\ mixed # <<>>
          [] i = 4 -> crops # <<>> /\ ~(pests # <<>> \/ mixed # <<>>)
          [] i = 5 -> chems # <<>> /\ crops = <<>>
          [] i = 6 -> brands # <<>> /\ crops = <<>>
          [] i = 7 -> barcodes # <<>> /\ crops = <<>>
          [] i = 8 -> crops = <<>> /\ pests = <<>> /\ mixed = <<>> /\ others # <<>>

Strategies == 1 .. 8
AfterStrategies == 9

\* A router written as one if / elif chain: the first strategy whose
\* condition holds is the only one that runs.
FirstStrategyOnly(i, crops, pests, chems, brands, barcodes, others) ==
    LET firing == { j \in Strategies :
                      Fires(j, crops, pests, chems, brands, barcodes, others) }
    IN  IF i # 0 \/ firing = {} THEN AfterStrategies
        ELSE CHOOSE j \in firing : \A k \in firing : j <= k

\* The first strategy behind i whose condition holds, AfterStrategies if none.
NextStrategy(i, crops, pests, chems, brands, barcodes, others) ==
    LET later == { j \in Strategies :
                     j > i /\ Fires(j, crops, pests, chems, brands, barcodes, others) }
    IN  IF later = {} THEN AfterStrategies
        ELSE CHOOSE j \in later : \A k \in later : j <= k

\* search_pesticides, lines 83-106: the five scans and the classification.
Classify ==
    /\ pc = "classify"
    /\ crop_keywords' = Members(keyword_list, all_crops(db))
    /\ pest_keywords' = Members(keyword_list, all_pests(db))
    /\ chem_keywords' = Members(keyword_list, all_chems(db))
    /\ brand_keywords' = Members(keyword_list, all_brands(db))
    /\ barcode_keywords' = Members(keyword_list, all_barcodes(db))
    /\ other_keywords' =
           SelectSeq(keyword_list,
               LAMBDA kw : kw \notin (all_crops(db) \cup all_pests(db)
                                      \cup all_chems(db) \cup all_brands(db)
                                      \cup all_barcodes(db)))
    /\ results' = <<>>
    /\ strategy' = NextStrategy(0, crop_keywords', pest_keywords', chem_keywords',
                                brand_keywords', barcode_keywords', other_keywords')
    /\ pc' = "route"
    /\ UNCHANGED <<db, keywords, conn, keyword_list, invoked, maps, response,
                   fault>>

\* results += handler(...), then on to the next strategy that fires.
Extend(i, out) ==
    /\ pc = "route"
    /\ strategy = i
    /\ invoked' = Append(invoked, i)
    /\ results' = results \o out.results
    /\ maps' = maps \o [m \in 1 .. Len(out.maps) |->
                           [handler |-> i, cards |-> out.maps[m]]]
    /\ strategy' = NextStrategy(i, crop_keywords, pest_keywords, chem_keywords,
                                brand_keywords, barcode_keywords, other_keywords)
    /\ UNCHANGED <<db, keywords, pc, conn, keyword_list, crop_keywords,
                   pest_keywords, chem_keywords, brand_keywords,
                   barcode_keywords, other_keywords, response, fault>>

CropPestsIntersectionStep ==
    Extend(1, handle_crop_pests_intersection(db, crop_keywords, pest_keywords))

CropSinglePestStep ==
    Extend(2, handle_crop_single_pest(db, crop_keywords, pest_keywords[1]))

CropMixedKeywordsStep ==
    Extend(3, handle_crop_mixed_keywords(db, crop_keywords, mixed_keywords))

CropOnlyStep == Extend(4, handle_crop_only(db, crop_keywords))

ChemOnlyStep == Extend(5, handle_chem_only(db, chem_keywords))

BrandOnlyStep == Extend(6, handle_brand_only(db, brand_keywords))

BarcodeOnlyStep == Extend(7, handle_barcode_only(db, barcode_keywords))

FallbackPartialMatchStep ==
    Extend(8, handle_fallback_partial_match(db, other_keywords))

\* search_pesticides, line 143: the ranking of the concatenated outputs.
Rank ==
    /\ pc = "route"
    /\ strategy = AfterStrategies
    /\ results' = deduplicate_and_sort_results(results)
    /\ pc' = "close"
    /\ UNCHANGED <<db, keywords, conn, keyword_list, crop_keywords,
                   pest_keywords, chem_keywords, brand_keywords,
                   barcode_keywords, other_keywords, strategy, invoked,
                   maps, response, fault>>

\* search_pesticides, lines 144-155: the session is closed, the list returned.
Return ==
    /\ pc = "close"
    /\ conn' = "closed"
    /\ response' = OkResponse(results)
    /\ pc' = "done"
    /\ UNCHANGED <<db, keywords, keyword_list, crop_keywords, pest_keywords,
                   chem_keywords, brand_keywords, barcode_keywords,
                   other_keywords, strategy, invoked, results, maps, fault>>

\* search_pesticides, lines 157-159: a scan, a lookup of the handler about to
\* run, or the sort raises; the except clause answers.
Fault ==
    /\ pc \in {"classify", "route"}
    /\ \E msg \in FaultMessages :
          /\ fault' = msg
          /\ response' = ErrorResponse(msg)
    /\ pc' = "done"
    /\ UNCHANGED <<db, keywords, conn, keyword_list, crop_keywords,
                   pest_keywords, chem_keywords, brand_keywords,
                   barcode_keywords, other_keywords, strategy, invoked,
                   results, maps>>

Next ==
    \/ Receive
    \/ Classify
    \/ CropPestsIntersectionStep
    \/ CropSinglePestStep
    \/ CropMixedKeywordsStep
    \/ CropOnlyStep
    \/ ChemOnlyStep
    \/ BrandOnlyStep
    \/ BarcodeOnlyStep
    \/ FallbackPartialMatchStep
    \/ Rank
    \/ Return
    \/ Fault


Spec == Init /\ [][Next]_vars

\* The prefix of a request up to the session: every raw string of at most
\* MaxRawLen characters, delimiters and letters alike.
RawAlphabet == {",", FullwidthComma, " ", IdeographicSpace, "c"}

RawStrings == UNION { [1 .. n -> RawAlphabet] : n \in 0 .. MaxRawLen }

InitSplit ==
    /\ db = MasterTable
    /\ keywords \in RawStrings
    /\ pc = "start"
    /\ conn = "none"
    /\ keyword_list = <<>>
    /\ crop_keywords = <<>>
    /\ pest_keywords = <<>>
    /\ chem_keywords = <<>>
    /\ brand_keywords = <<>>
    /\ barcode_keywords = <<>>
    /\ other_keywords = <<>>
    /\ strategy = 0
    /\ invoked = <<>>
    /\ results = <<>>
    /\ maps = <<>>
    /\ response = NoResponse
    /\ fault = ""

NextSplit == Receive

SpecSplit == InitSplit /\ [][NextSplit]_vars

\* The requests that name crops and then products of the table: up to
\* MaxCrops crop names, up to MaxMixed chemical names, brands or barcodes.
CropTokens == { <<"c">>, <<"d">> }

ProductTokens == { <<"P">>, <<"N">>, <<"1">> }

InitMixed ==
    /\ db \in Tables
    /\ \E cs \in UNION { [1 .. n -> CropTokens] : n \in 1 .. MaxCrops },
          ms \in UNION { [1 .. n -> ProductTokens] : n \in 1 .. MaxMixed } :
          /\ \A i \in 1 .. Len(cs) : cs[i] \in all_crops(db)
          /\ \A j \in 1 .. Len(ms) :
                ms[j] \in all_chems(db) \cup all_brands(db) \cup all_barcodes(db)
          /\ keywords = JoinTokens(cs \o ms, 1)
    /\ pc = "start"
    /\ conn = "none"
    /\ keyword_list = <<>>
    /\ crop_keywords = <<>>
    /\ pest_keywords = <<>>
    /\ chem_keywords = <<>>
    /\ brand_keywords = <<>>
    /\ barcode_keywords = <<>>
    /\ other_keywords = <<>>
    /\ strategy = 0
    /\ invoked = <<>>
    /\ results = <<>>
    /\ maps = <<>>
    /\ response = NoResponse
    /\ fault = ""

NextMixed ==
    \/ Receive
    \/ Classify
    \/ CropMixedKeywordsStep
    \/ Rank
    \/ Return

SpecMixed == InitMixed /\ [][NextMixed]_vars

\* ================================================================ claims
Returned == pc = "done" /\ response.status = 200

ProductCards(cards) == SelectSeq(cards, IsProduct)

Triple(x) == <<x.name, x.form, x.conc>>

\* ----------------------------------------------------------------- C1
\* The triples of the rows of crop whose pest name contains pest.
TriplesFor(crop, pest) ==
    { <<db[i].chem, db[i].form, db[i].conc>> :
        i \in { j \in 1 .. Len(db) : db[j].crop = crop /\ Like(db[j].pest, pest) } }

\* The triples of the cards the intersection handler emitted under crop.
EmittedUnder(crop) ==
    { Triple(results[i]) :
        i \in { j \in 1 .. Len(results) :
                  /\ "has_common_pesticide" \in DOMAIN results[j]
                  /\ results[j].crop = crop } }

IntersectionRan ==
    /\ pc \in {"route", "close"} \/ Returned
    /\ strategy > 1
    /\ crop_keywords # <<>>
    /\ Len(pest_keywords) >= 2

\* C1: once the intersection handler has run, the triples of its ProductCards
\* under each crop keyword are exactly the triples common to all the pest
\* keywords; if one pest keyword matches nothing under the crop, there is none.
IntersectionLaw ==
    IntersectionRan =>
        \A c \in 1 .. Len(crop_keywords) :
            EmittedUnder(crop_keywords[c]) =
                { tr \in TriplesFor(crop_keywords[c], pest_keywords[1]) :
                    \A n \in 1 .. Len(pest_keywords) :
                        tr \in TriplesFor(crop_keywords[c], pest_keywords[n]) }

\* ----------------------------------------------------------------- C2
\* C2: no request has returned, normally or with an error, with its
\* data-store session still open.
SessionClosedOnReturn == pc = "done" => conn # "open"

\* ----------------------------------------------------------------- C3
UsagesUnique(x) ==
    \A i, j \in 1 .. Len(x.usages) :
        i < j => ~SameUsage(x.usages[i], x.usages[j])

\* C3: in every ProductCard of the returned list no two usage entries share
\* (displayed pest name, safe harvest interval, dilution ratio, dosage).
ReturnedUsagesUnique ==
    Returned =>
        \A i \in 1 .. Len(response.body) :
            IsProduct(response.body[i]) => UsagesUnique(response.body[i])

\* ----------------------------------------------------------------- C4
DigitValue(c) == CHOOSE n \in 0 .. 9 : ToString(n) = c

RECURSIVE Power10(_)
Power10(k) == IF k = 0 THEN 1 ELSE 10 * Power10(k - 1)

\* The integer formed by the digits of text, -1 for positive infinity.
DigitsValue(text) ==
    LET at == { i \in 1 .. Len(text) : text[i] \in Digits }
        RECURSIVE Total(_)
        Total(rest) ==
            IF rest = {} THEN 0
            ELSE LET i == CHOOSE k \in rest : TRUE
                 IN  DigitValue(text[i])
                       * Power10(Cardinality({ k \in at : k > i }))
                     + Total(rest \ {i})
    IN  IF at = {} THEN -1 ELSE Total(at)

\* The extracted days of a card as the ranking is described, -1 for infinity.
ExtractedDays(x) ==
    IF IsNoMatch(x) THEN -1
    ELSE LET filled == { i \in 1 .. Len(x.usages) :
                           x.usages[i].phi \notin {<<>>, Null} }
         IN  IF filled = {} THEN -1
             ELSE DigitsValue(x.usages[CHOOSE i \in filled :
                                           \A k \in filled : i <= k].phi)

ExactMatchFlag(x) == "has_exact_match" \in DOMAIN x /\ x.has_exact_match

SameRank(x, y) ==
    /\ ExactMatchFlag(x) = ExactMatchFlag(y)
    /\ ExtractedDays(x) = ExtractedDays(y)

\* x ranks strictly before y: flag descending, then days ascending.
RanksBefore(x, y) ==
    \/ ExactMatchFlag(x) /\ ~ExactMatchFlag(y)
    \/ /\ ExactMatchFlag(x) = ExactMatchFlag(y)
       /\ ExtractedDays(x) # -1
       /\ (ExtractedDays(y) = -1 \/ ExtractedDays(x) < ExtractedDays(y))

StableSortOf(post, pre) ==
    /\ Len(post) = Len(pre)
    /\ \A i, j \in 1 .. Len(post) : i < j => ~RanksBefore(post[j], post[i])
    /\ \A i \in 1 .. Len(pre) :
           SelectSeq(post, LAMBDA y : SameRank(y, pre[i]))
               = SelectSeq(pre, LAMBDA y : SameRank(y, pre[i]))

\* C4: the ranking step turns the concatenated handler outputs into their
\* stable sort by (exact-match flag descending, extracted days ascending):
\* smaller days first, cards of equal rank in their order before the sort.
RankingIsStableSort ==
    [][(pc = "route" /\ pc' = "close") => StableSortOf(results', results)]_vars

\* A "14d" card that a handler built ahead of a "7d" card is returned behind it.
RankingReordered ==
    /\ Returned
    /\ \E m \in 1 .. Len(maps) :
          /\ Len(maps[m].cards) = 2
          /\ ExtractedDays(maps[m].cards[1]) = 14
          /\ ExtractedDays(maps[m].cards[2]) = 7
          /\ response.body = <<maps[m].cards[2], maps[m].cards[1]>>

\* ----------------------------------------------------------------- C5
Blank(raw) ==
    \A i \in 1 .. Len(raw) :
        raw[i] \in {" ", "\t", IdeographicSpace, ",", FullwidthComma}

\* C5: a request whose keyword string is empty or made of whitespace and
\* commas only returns the empty list and never opens a session.
BlankQueryReturnsEmpty ==
    (Blank(keywords) /\ pc # "start") =>
        /\ pc = "done"
        /\ response = [status |-> 200, body |-> <<>>]
        /\ conn = "none"

BlankQueryReturned ==
    /\ pc = "done"
    /\ Len(keywords) >= 2
    /\ Blank(keywords)
    /\ \E i \in 1 .. Len(keywords) : keywords[i] = FullwidthComma
    /\ response.status = 200

\* ----------------------------------------------------------------- C6
\* C6: a request in which a step raised answers with exactly one error signal
\* that carries the message of the fault and none of the cards built so far.
FaultGivesSingleError ==
    fault # "" =>
        /\ pc = "done"
        /\ DOMAIN response = {"status", "error"}
        /\ response.status = 500
        /\ response.error = fault

FaultAfterCards ==
    /\ fault # ""
    /\ pc = "done"
    /\ ProductCards(results) # <<>>
    /\ strategy > 1

\* ----------------------------------------------------------------- C7
IsNotice(x) == IsNoMatch(x) /\ x.error_message = NoOverlapMessage

\* C7: when the crop + chemical/brand/barcode handler added its "no
\* overlapping control target" notice, the notice is the first element of the
\* returned list.
NoticeLeadsReturnedList ==
    (Returned /\ \E i \in 1 .. Len(response.body) : IsNotice(response.body[i]))
        => IsNotice(response.body[1])

\* ----------------------------------------------------------------- C8
\* C8 as claimed: in the returned list no NoMatchCard other than the notice
\* precedes a ProductCard.
NoMatchRankedLast ==
    Returned =>
        \A i, j \in 1 .. Len(response.body) :
            (/\ i < j
             /\ IsNoMatch(response.body[i])
             /\ ~IsNotice(response.body[i]))
                => ~IsProduct(response.body[j])

\* C8 amended: in the returned list no NoMatchCard other than the notice
\* precedes a ProductCard whose extracted days are finite.
NoMatchBehindDatedCards ==
    Returned =>
        \A i, j \in 1 .. Len(response.body) :
            (/\ i < j
             /\ IsNoMatch(response.body[i])
             /\ ~IsNotice(response.body[i])
             /\ IsProduct(response.body[j]))
                => ExtractedDays(response.body[j]) = -1

\* A NoMatchCard that pass 1 put at the front is returned behind a dated card.
FrontNoMatchRankedBehind ==
    /\ Returned
    /\ Len(response.body) = 2
    /\ IsProduct(response.body[1])
    /\ ExtractedDays(response.body[1]) = 7
    /\ IsNoMatch(response.body[2])
    /\ "query_type" \in DOMAIN response.body[2]

\* ----------------------------------------------------------------- C9
DistinctTriples(cards) ==
    \A i, j \in 1 .. Len(cards) : i < j => Triple(cards[i]) # Triple(cards[j])

HandlerCards(h) ==
    Flatten([m \in 1 .. Len(maps) |->
                IF maps[m].handler = h THEN maps[m].cards ELSE <<>>])

\* C9 as claimed: no two ProductCards of one handler's output share
\* (chemical name, formulation, concentration).
HandlerOutputKeysUnique ==
    \A h \in Strategies : DistinctTriples(HandlerCards(h))

\* C9 amended: no two ProductCards that one handler built from the same
\* lookup (one grouping map: one crop keyword, one crop and mixed keyword, or
\* one keyword of the bucket) share (chemical name, formulation, concentration).
GroupingMapKeysUnique ==
    \A m \in 1 .. Len(maps) : DistinctTriples(maps[m].cards)

\* Two maps of one handler hold the same key, one of them beside another key.
SameKeyAcrossMaps ==
    \E m, n \in 1 .. Len(maps) :
        /\ m < n
        /\ maps[m].handler = maps[n].handler
        /\ Len(maps[m].cards) >= 2
        /\ \E i \in 1 .. Len(maps[m].cards), j \in 1 .. Len(maps[n].cards) :
              Triple(maps[m].cards[i]) = Triple(maps[n].cards[j])

\* ---------------------------------------------------------------- C10
NoNullText(x) ==
    /\ x.moa_name # Null
    /\ x.moa_note # Null
    /\ \A k \in 1 .. Len(x.usages) :
          /\ x.usages[k].phi # Null
          /\ x.usages[k].dilution # Null
          /\ x.usages[k].dosage # Null

\* C10: no ProductCard and no usage entry a handler built holds a null in a
\* textual field (mechanism name and note, interval, dilution, dosage).
NoNullTextFields ==
    \A i \in 1 .. Len(results) :
        IsProduct(results[i]) => NoNullText(results[i])

\* ---------------------------------------------------------------- C11
\* The decision table over the classified buckets of the request.
BucketCondition(i) ==
    LET crop == crop_keywords # <<>>
        pests == Len(pest_keywords)
        mixed == chem_keywords # <<>> \/ brand_keywords # <<>>
                 \/ barcode_keywords # <<>>
    IN  CASE i = 1 -> crop /\ pests >= 2
          [] i = 2 -> crop /\ pests = 1
          [] i = 3 -> crop /\ mixed
          [] i = 4 -> crop /\ pests = 0 /\ ~mixed
          [] i = 5 -> chem_keywords # <<>> /\ ~crop
          [] i = 6 -> brand_keywords # <<>> /\ ~crop
          [] i = 7 -> barcode_keywords # <<>> /\ ~crop
          [] i = 8 -> ~crop /\ pests = 0 /\ ~mixed /\ other_keywords # <<>>

\* What strategy i returns on the buckets of the request.
StrategyOutput(i) ==
    CASE i = 1 -> handle_crop_pests_intersection(db, crop_keywords,
                                                 pest_keywords).results
      [] i = 2 -> handle_crop_single_pest(db, crop_keywords,
                                          pest_keywords[1]).results
      [] i = 3 -> handle_crop_mixed_keywords(db, crop_keywords,
                      chem_keywords \o brand_keywords \o barcode_keywords).results
      [] i = 4 -> handle_crop_only(db, crop_keywords).results
      [] i = 5 -> handle_chem_only(db, chem_keywords).results
      [] i = 6 -> handle_brand_only(db, brand_keywords).results
      [] i = 7 -> handle_barcode_only(db, barcode_keywords).results
      [] i = 8 -> handle_fallback_partial_match(db, other_keywords).results

\* The router is through: every condition was tested, the list is not yet
\* sorted.
RouterThrough == pc = "route" /\ strategy = AfterStrategies

Invoked(i) == \E k \in 1 .. Len(invoked) : invoked[k] = i

\* C11: once the router is through, the strategies it called are exactly
\* those whose bucket condition holds, called in the order 1..8, and the
\* list before the sort is the concatenation of their outputs in that order;
\* no request calls a crop-requiring strategy (1-4) and a crop-absent one
\* (5-8), and none calls both strategy 1 and strategy 2.
RouterFollowsDecisionTable ==
    /\ RouterThrough =>
          /\ invoked = SelectSeq(<<1, 2, 3, 4, 5, 6, 7, 8>>, BucketCondition)
          /\ results = Flatten([k \in 1 .. Len(invoked) |->
                                   StrategyOutput(invoked[k])])
    /\ \A i \in 1 .. 4, j \in 5 .. 8 : ~(Invoked(i) /\ Invoked(j))
    /\ ~(Invoked(1) /\ Invoked(2))

\* The router called several strategies and each of them returned cards.
SeveralStrategiesInvoked ==
    /\ RouterThrough
    /\ Len(invoked) >= 2
    /\ \A k \in 1 .. Len(invoked) : StrategyOutput(invoked[k]) # <<>>

\* ---------------------------------------------------------------- C12
\* The rows the lookups of the handler return for one crop.
ReturnedFor(crop) ==
    SelectSeq(db, LAMBDA r :
        /\ r.crop = crop
        /\ \E j \in 1 .. Len(mixed_keywords) :
              r[KeywordType(db, mixed_keywords[j])] = mixed_keywords[j])

\* A pest name recurs in another: equal, one inside the other, or equal once
\* the leaf character is removed.
Recurs(pest, other) ==
    \/ pest = other
    \/ \E i \in 0 .. Len(other) - Len(pest) :
          SubSeq(other, i + 1, i + Len(pest)) = pest
    \/ \E i \in 0 .. Len(pest) - Len(other) :
          SubSeq(pest, i + 1, i + Len(other)) = other
    \/ SelectSeq(pest, LAMBDA ch : ch # Leaf)
         = SelectSeq(other, LAMBDA ch : ch # Leaf)

RecursUnderCrop(crop, chem, pest) ==
    LET rows == ReturnedFor(crop)
    IN  \E i \in 1 .. Len(rows) :
           rows[i].chem # chem /\ Recurs(pest, rows[i].pest)

\* The cards of pass 1, before any pest name is marked.
UnmarkedCards ==
    MixedPass1(db, Flatten([i \in 1 .. Len(crop_keywords) |->
                      [j \in 1 .. Len(mixed_keywords) |->
                          <<crop_keywords[i], mixed_keywords[j]>>]]),
               [results |-> <<>>, maps |-> <<>>,
                pest_names_by_chem |-> <<>>]).results

\* The cards the handler returned, without the notice it may put in front.
MarkedCards ==
    SubSeq(results, Len(results) - Len(UnmarkedCards) + 1, Len(results))

MixedHandlerRan == RouterThrough /\ invoked = <<3>>

\* C12: in the output of the crop + chemical / brand / barcode handler, a
\* usage got the marker in front of its pest name only if that pest name
\* recurs in the pest names of a different raw chemical name returned for
\* the crop of its card; a match with a pest of another chemical under
\* another crop keyword alone marks nothing.
MarkedOnlyOnSameCropOverlap ==
    MixedHandlerRan =>
        \A i \in 1 .. Len(UnmarkedCards) :
            IsProduct(UnmarkedCards[i]) =>
                \A k \in 1 .. Len(UnmarkedCards[i].usages) :
                    MarkedCards[i].usages[k].pest
                        # UnmarkedCards[i].usages[k].pest
                    => RecursUnderCrop(UnmarkedCards[i].crop,
                                       UnmarkedCards[i].raw_chem_name,
                                       UnmarkedCards[i].usages[k].pest)

\* ---------------------------------------------------------------- C13
\* The classified request has a pest keyword, no crop keyword and no
\* chemical, brand or barcode keyword.
PestWithoutCropOrProduct ==
    /\ pc \in {"route", "close", "done"}
    /\ pest_keywords # <<>>
    /\ crop_keywords = <<>>
    /\ chem_keywords = <<>>
    /\ brand_keywords = <<>>
    /\ barcode_keywords = <<>>

\* C13: a request with a pest keyword, no crop keyword and no chemical,
\* brand or barcode keyword, with or without unclassified words, calls no
\* strategy: its list stays empty and the entrypoint returns the empty
\* sequence, with neither a ProductCard nor a NoMatchCard.
PestOnlyQueryCallsNothing ==
    PestWithoutCropOrProduct =>
        /\ invoked = <<>>
        /\ results = <<>>
        /\ strategy = AfterStrategies
        /\ Returned => response.body = <<>>

\* Such a request returned, its pest keyword beside an unclassified word,
\* while the table holds rows for that pest.
PestOnlyQueryReturned ==
    /\ Returned
    /\ PestWithoutCropOrProduct
    /\ other_keywords # <<>>
    /\ \E i \in 1 .. Len(db) : db[i].pest = pest_keywords[1]
====
